---- MODULE Spec2Model ----
(***************************************************************************)
(* Model of the FXOS8700 accelerometer/magnetometer driver                 *)
(* (src/nxp_imu/FXOS8700.py).                                              *)
(*                                                                         *)
(* The driver is single threaded and every bus call blocks, so each method *)
(* (__init__, get, temperature, __del__) is one action.  The register bus  *)
(* (base class I2C, not part of src/) is an environment: it returns the    *)
(* bytes the device holds and may fail any single operation.               *)
(*                                                                         *)
(* Units: Python floats are modelled exactly, as integers.  Accelerations  *)
(* are in millionths of a g (0.000244 g = 244), magnetic fields in         *)
(* thousandths of a microtesla (0.1 uT = 100).  Floating-point rounding of *)
(* the products is not modelled.                                           *)
(*                                                                         *)
(* Python's None is the empty tuple <<>>, a present value v is <<v>>.      *)
(***************************************************************************)
EXTENDS Integers, Sequences, FiniteSets

----------------------------------------------------------------------------
(* Register map and constants, FXOS8700.py lines 10-46 (hex in comments).  *)

FXOS8700_ID == 199
\* 0xC7

FXOS8700_REGISTER_OUT_X_MSB == 1
\* 0x01

FXOS8700_REGISTER_WHO_AM_I == 13
\* 0x0D

FXOS8700_REGISTER_XYZ_DATA_CFG == 14
\* 0x0E

FXOS8700_REGISTER_CTRL_REG1 == 42
\* 0x2A

FXOS8700_REGISTER_CTRL_REG2 == 43
\* 0x2B

FXOS8700_REGISTER_TEMPERATURE == 81
\* 0x51

FXOS8700_REGISTER_MCTRL_REG1 == 91
\* 0x5B

ACCEL_RANGE_2G == 0

ACCEL_RANGE_4G == 1

ACCEL_RANGE_8G == 2

ACCEL_MG_LSB_2G == 244
\* 0.000244 g per count, in millionths of a g

ACCEL_MG_LSB_4G == 488

ACCEL_MG_LSB_8G == 976

MAG_UT_LSB == 100
\* 0.1 uT per count, in thousandths of a uT

BURST_LEN == 12
\* the count passed to read_block in get()

----------------------------------------------------------------------------
(* Bounds and input sets.                                                  *)

\* The bus operation (1st, 2nd, ...) of a call that the transport fails;
\* 0 and every index beyond the call's last operation mean "none fails".
\* Construction issues at most 7 operations (1 read, 5 writes, 1 verbose read).
MaxFailAt == 7

\* Longest byte sequence the transport hands back for a burst read.
MaxBurstLen == 13

Byte == 0..255

\* Requested ranges: None, the three supported ones, and unsupported ones.
GsVals == {<<>>, <<2>>, <<4>>, <<8>>, <<0>>, <<3>>, <<16>>}

\* (msb, lsb) pairs of acceleration output registers:
\* 0x0190 = 400, 0xFE70 = -400, 0x0000, 0xFFFD = -3, 0x8000 = -32768
AccelWords == {<<1, 144>>, <<254, 112>>, <<0, 0>>, <<255, 253>>, <<128, 0>>}

\* (msb, lsb) pairs of magnetometer output registers: 0x03E8 = 1000, 0xFC18 = -1000
MagWords == {<<3, 232>>, <<252, 24>>}

\* Temperature byte the device holds while a verbose construction prints.
VerboseTemps == {25}

Burst(ax, ay, az, mx, my, mz) == ax \o ay \o az \o mx \o my \o mz

\* Twelve-byte bursts: every triple of acceleration words beside one magnetic
\* triple, and every triple of magnetic words beside one acceleration triple.
FullBursts ==
    { Burst(ax, ay, az, <<3, 232>>, <<252, 24>>, <<3, 232>>) :
        ax \in AccelWords, ay \in AccelWords, az \in AccelWords }
    \cup { Burst(<<1, 144>>, <<254, 112>>, <<0, 0>>, mx, my, mz) :
        mx \in MagWords, my \in MagWords, mz \in MagWords }

SeedBursts ==
    { Burst(<<1, 144>>, <<254, 112>>, <<0, 0>>, <<3, 232>>, <<252, 24>>, <<3, 232>>),
      Burst(<<255, 253>>, <<128, 0>>, <<127, 255>>, <<252, 24>>, <<3, 232>>, <<252, 24>>) }
\* the second seed holds 0x7FFF = 32767 in its third field

Pad(n) == [i \in 1..n |-> 170]

\* Byte sequences of the wrong length: every prefix of a seed burst and
\* every seed burst extended up to MaxBurstLen bytes.
WrongBursts ==
    { SubSeq(b, 1, n) : b \in SeedBursts, n \in 0..(BURST_LEN - 1) }
    \cup { b \o Pad(n - BURST_LEN) : b \in SeedBursts, n \in (BURST_LEN + 1)..MaxBurstLen }

BurstInputs == FullBursts \cup SeedBursts \cup WrongBursts

\* What the transport does with the one bus read of a get() or temperature()
\* call: <<data, 0>> hands back data, <<data, 1>> fails the read.
GetInputs == { <<d, 0>> : d \in BurstInputs } \cup { <<d, 1>> : d \in SeedBursts }

TemperatureInputs == { <<b, 0>> : b \in Byte } \cup { <<b, 1>> : b \in VerboseTemps }

----------------------------------------------------------------------------
VARIABLES
    whoami,     \* device: content of the WHO_AM_I register
    phase,      \* "new" (not constructed), "ready" (__init__ returned), "failed" (__init__ raised)
    gs,         \* the range __init__ was called with
    scale,      \* self.scale: <<>> is None
    bus,        \* bus operations issued by __init__, in order
    call,       \* the most recent method: "", "init", "get", "temperature"
    callOps,    \* bus operations issued by the most recent get/temperature call
    result,     \* what the most recent get/temperature call returned; <<>> if it raised
    err,        \* the exception the most recent method raised; "" if none
    finalized,  \* __del__ has run
    closes      \* number of i2c.close() calls

vars == <<whoami, phase, gs, scale, bus, call, callOps, result, err, finalized, closes>>

----------------------------------------------------------------------------
(* Bus transport (class I2C).  A method's progress is a record             *)
(* [bus, err, scale, ret]: the operations issued so far, the exception in  *)
(* flight ("" if none), self.scale and the last value read.  A statement   *)
(* reached while an exception is in flight is not executed: the source     *)
(* has no try/except.                                                      *)

BusOp(op, reg, n, val, ok) == [op |-> op, reg |-> reg, n |-> n, val |-> val, ok |-> ok]

Start(sc) == [bus |-> <<>>, err |-> "", scale |-> sc, ret |-> <<>>]

write8(m, reg, val, failAt) ==
    IF m.err # "" THEN m
    ELSE LET ok == (Len(m.bus) + 1 # failAt)
         IN  [m EXCEPT !.bus = Append(@, BusOp("write8", reg, 1, <<val>>, ok)),
                       !.err = IF ok THEN "" ELSE "BusWriteFailed"]

read8(m, reg, byte, failAt) ==
    IF m.err # "" THEN m
    ELSE LET ok == (Len(m.bus) + 1 # failAt)
         IN  [m EXCEPT !.bus = Append(@, BusOp("read8", reg, 1, IF ok THEN <<byte>> ELSE <<>>, ok)),
                       !.err = IF ok THEN "" ELSE "BusReadFailed",
                       !.ret = IF ok THEN <<byte>> ELSE <<>>]

read_block(m, reg, n, data, failAt) ==
    IF m.err # "" THEN m
    ELSE LET ok == (Len(m.bus) + 1 # failAt)
         IN  [m EXCEPT !.bus = Append(@, BusOp("read_block", reg, n, IF ok THEN data ELSE <<>>, ok)),
                       !.err = IF ok THEN "" ELSE "BusReadFailed",
                       !.ret = IF ok THEN data ELSE <<>>]

Raise(m, e) == IF m.err # "" THEN m ELSE [m EXCEPT !.err = e]

----------------------------------------------------------------------------
(* struct.unpack formats.                                                  *)

\* Mutant: the byte unpacked with the unsigned format 'B'.
unpack_b_Unsigned(b) == b

\* struct.unpack('b', ...): one signed byte
unpack_b(b) == IF b >= 128 THEN b - 256 ELSE b

\* struct.unpack('>h', ...): big-endian signed 16-bit
unpack_h(msb, lsb) ==
    LET u == msb * 256 + lsb
    IN  IF u >= 32768 THEN u - 65536 ELSE u

\* Mutant: a logical shift of the 16-bit pattern (0xFE70 >> 2 = 16284).
Shr2_Logical(x) == (x % 65536) \div 4

\* x >> 2 on a Python int: floor division by 4
Shr2(x) == x \div 4

----------------------------------------------------------------------------
(* FXOS8700.__init__                                                       *)

\* Mutant: the identity byte is read but never compared.
IdentityCheck_NoCompare(m, who, failAt) == read8(m, FXOS8700_REGISTER_WHO_AM_I, who, failAt)

\* lines 67-68
IdentityCheck(m, who, failAt) ==
    LET r == read8(m, FXOS8700_REGISTER_WHO_AM_I, who, failAt)
    IN  IF r.err = "" /\ r.ret # <<FXOS8700_ID>> THEN Raise(r, "IdentityMismatch") ELSE r

\* line 71
InitStandby(m, failAt) == write8(m, FXOS8700_REGISTER_CTRL_REG1, 0, failAt)

SetScale(m, sc) == IF m.err # "" THEN m ELSE [m EXCEPT !.scale = <<sc>>]

\* Mutant: the 4G and 8G scale constants swapped.
InitRange_SwappedScale(m, g, failAt) ==
    IF m.err # "" THEN m
    ELSE IF g = <<2>> \/ g = <<>>
         THEN SetScale(write8(m, FXOS8700_REGISTER_XYZ_DATA_CFG, ACCEL_RANGE_2G, failAt), ACCEL_MG_LSB_2G)
    ELSE IF g = <<4>>
         THEN SetScale(write8(m, FXOS8700_REGISTER_XYZ_DATA_CFG, ACCEL_RANGE_4G, failAt), ACCEL_MG_LSB_8G)
    ELSE IF g = <<8>>
         THEN SetScale(write8(m, FXOS8700_REGISTER_XYZ_DATA_CFG, ACCEL_RANGE_8G, failAt), ACCEL_MG_LSB_4G)
    ELSE Raise(m, "InvalidConfiguration")

\* Mutant: the default branch writes the range code but leaves self.scale unset.
InitRange_DefaultUnscaled(m, g, failAt) ==
    IF m.err # "" THEN m
    ELSE IF g = <<2>> \/ g = <<>>
         THEN write8(m, FXOS8700_REGISTER_XYZ_DATA_CFG, ACCEL_RANGE_2G, failAt)
    ELSE IF g = <<4>>
         THEN SetScale(write8(m, FXOS8700_REGISTER_XYZ_DATA_CFG, ACCEL_RANGE_4G, failAt), ACCEL_MG_LSB_4G)
    ELSE IF g = <<8>>
         THEN SetScale(write8(m, FXOS8700_REGISTER_XYZ_DATA_CFG, ACCEL_RANGE_8G, failAt), ACCEL_MG_LSB_8G)
    ELSE Raise(m, "InvalidConfiguration")

\* lines 75-88
InitRange(m, g, failAt) ==
    IF m.err # "" THEN m
    ELSE IF g = <<2>> \/ g = <<>>
         THEN SetScale(write8(m, FXOS8700_REGISTER_XYZ_DATA_CFG, ACCEL_RANGE_2G, failAt), ACCEL_MG_LSB_2G)
    ELSE IF g = <<4>>
         THEN SetScale(write8(m, FXOS8700_REGISTER_XYZ_DATA_CFG, ACCEL_RANGE_4G, failAt), ACCEL_MG_LSB_4G)
    ELSE IF g = <<8>>
         THEN SetScale(write8(m, FXOS8700_REGISTER_XYZ_DATA_CFG, ACCEL_RANGE_8G, failAt), ACCEL_MG_LSB_8G)
    ELSE Raise(m, "InvalidConfiguration")

\* Mutant: the write wrapped in try/except that swallows the transport error.
InitHighRes_Swallow(m, failAt) ==
    IF m.err # "" THEN m
    ELSE [write8(m, FXOS8700_REGISTER_CTRL_REG2, 2, failAt) EXCEPT !.err = ""]

\* line 91
InitHighRes(m, failAt) == write8(m, FXOS8700_REGISTER_CTRL_REG2, 2, failAt)

\* line 94
InitMagOff(m, failAt) == write8(m, FXOS8700_REGISTER_MCTRL_REG1, 0, failAt)

\* line 97
InitActive(m, failAt) == write8(m, FXOS8700_REGISTER_CTRL_REG1, 5, failAt)

\* lines 117-121: temperature() on a method's progress record
ReadTemperature(m, byte, failAt) ==
    LET r == read8(m, FXOS8700_REGISTER_TEMPERATURE, byte, failAt)
    IN  IF r.err # "" THEN r ELSE [r EXCEPT !.ret = <<unpack_b(r.ret[1])>>]

\* lines 99-107: the verbose banner prints self.temperature()
InitVerbose(m, verbose, byte, failAt) ==
    IF verbose THEN ReadTemperature(m, byte, failAt) ELSE m

\* Mutant: the range register written before the device is put in standby.
InitBody_RangeBeforeStandby(g, who, verbose, tbyte, failAt) ==
    LET m1 == IdentityCheck(Start(<<>>), who, failAt)
        m2 == InitRange(m1, g, failAt)
        m3 == InitStandby(m2, failAt)
        m4 == InitHighRes(m3, failAt)
        m5 == InitMagOff(m4, failAt)
        m6 == InitActive(m5, failAt)
    IN  InitVerbose(m6, verbose, tbyte, failAt)

\* lines 66-107
InitBody(g, who, verbose, tbyte, failAt) ==
    LET m1 == IdentityCheck(Start(<<>>), who, failAt)
        m2 == InitStandby(m1, failAt)
        m3 == InitRange(m2, g, failAt)
        m4 == InitHighRes(m3, failAt)
        m5 == InitMagOff(m4, failAt)
        m6 == InitActive(m5, failAt)
    IN  InitVerbose(m6, verbose, tbyte, failAt)

Construct ==
    /\ phase = "new"
    /\ \E g \in GsVals, verbose \in BOOLEAN, tbyte \in VerboseTemps, failAt \in 0..MaxFailAt :
         LET m == InitBody(g, whoami, verbose, tbyte, failAt)
         IN  /\ gs' = g
             /\ bus' = m.bus
             /\ scale' = m.scale
             /\ err' = m.err
             /\ phase' = IF m.err = "" THEN "ready" ELSE "failed"
    /\ call' = "init"
    /\ UNCHANGED <<whoami, callOps, result, finalized, closes>>

----------------------------------------------------------------------------
(* FXOS8700.get                                                            *)

\* lines 129-138: decode the twelve bytes with the stored scale
Decode(d, sc) ==
    LET data == [i \in 1..6 |-> unpack_h(d[2 * i - 1], d[2 * i])]
        accel == [i \in 1..3 |-> Shr2(data[i]) * sc[1]]
        mag == [i \in 1..3 |-> data[i + 3] * MAG_UT_LSB]
    IN  <<accel, mag>>

\* Mutant: struct.unpack_from, which accepts a buffer longer than the format.
GetBody_UnpackFrom(sc, data, failAt) ==
    LET r == read_block(Start(sc), FXOS8700_REGISTER_OUT_X_MSB, BURST_LEN, data, failAt)
    IN  IF r.err # "" THEN r
        ELSE IF Len(r.ret) < 12 THEN [Raise(r, "struct.error") EXCEPT !.ret = <<>>]
        ELSE IF sc = <<>> THEN [Raise(r, "TypeError") EXCEPT !.ret = <<>>]
        ELSE [r EXCEPT !.ret = Decode(SubSeq(r.ret, 1, 12), sc)]

\* lines 127-138
GetBody(sc, data, failAt) ==
    LET r == read_block(Start(sc), FXOS8700_REGISTER_OUT_X_MSB, BURST_LEN, data, failAt)
    IN  IF r.err # "" THEN r
        ELSE IF Len(r.ret) # BURST_LEN THEN [Raise(r, "struct.error") EXCEPT !.ret = <<>>]
        ELSE IF sc = <<>> THEN [Raise(r, "TypeError") EXCEPT !.ret = <<>>]
        ELSE [r EXCEPT !.ret = Decode(r.ret, sc)]

Get ==
    /\ phase = "ready"
    /\ ~finalized
    /\ \E inp \in GetInputs :
         LET m == GetBody(scale, inp[1], inp[2])
         IN  /\ callOps' = m.bus
             /\ result' = m.ret
             /\ err' = m.err
             /\ scale' = m.scale
    /\ call' = "get"
    /\ UNCHANGED <<whoami, phase, gs, bus, finalized, closes>>

----------------------------------------------------------------------------
(* FXOS8700.temperature                                                    *)

\* lines 112-121
Temperature ==
    /\ phase = "ready"
    /\ ~finalized
    /\ \E inp \in TemperatureInputs :
         LET m == ReadTemperature(Start(scale), inp[1], inp[2])
         IN  /\ callOps' = m.bus
             /\ result' = m.ret
             /\ err' = m.err
             /\ scale' = m.scale
    /\ call' = "temperature"
    /\ UNCHANGED <<whoami, phase, gs, bus, finalized, closes>>

----------------------------------------------------------------------------
(* FXOS8700.__del__: run by the Python runtime, once, when the last        *)
(* reference to the object is dropped.  The object exists as soon as       *)
(* __init__ is entered, so it is finalized whether __init__ returned or    *)
(* raised; no method can be called on it afterwards.                       *)

\* Mutant: the handle closed only when construction had succeeded.
Del_OnlyWhenReady ==
    /\ phase # "new"
    /\ ~finalized
    /\ finalized' = TRUE
    /\ closes' = IF phase = "ready" THEN closes + 1 ELSE closes
    /\ UNCHANGED <<whoami, phase, gs, scale, bus, call, callOps, result, err>>

\* lines 109-110
Del ==
    /\ phase # "new"
    /\ ~finalized
    /\ finalized' = TRUE
    /\ closes' = closes + 1
    /\ UNCHANGED <<whoami, phase, gs, scale, bus, call, callOps, result, err>>

----------------------------------------------------------------------------
Init ==
    /\ whoami \in Byte
    /\ phase = "new"
    /\ gs = <<>>
    /\ scale = <<>>
    /\ bus = <<>>
    /\ call = ""
    /\ callOps = <<>>
    /\ result = <<>>
    /\ err = ""
    /\ finalized = FALSE
    /\ closes = 0

Next == Construct \/ Get \/ Temperature \/ Del

Spec == Init /\ [][Next]_vars

\* The caller eventually drops the driver and the runtime then finalizes it.
FairSpec == Spec /\ WF_vars(Del)

----------------------------------------------------------------------------
(* Properties.                                                             *)

IsWrite(o) == o.op = "write8"

\* The register writes of a log, as <<register, value>> pairs in issue order.
WriteList(b) ==
    LET w == SelectSeq(b, IsWrite)
    IN  [i \in 1..Len(w) |-> <<w[i].reg, w[i].val[1]>>]

SupportedGs == {<<>>, <<2>>, <<4>>, <<8>>}

\* C1: when construction raises the invalid-range error, no register write
\* has been issued to the transport.
C1_InvalidRangeNoWrites ==
    (phase = "failed" /\ err = "InvalidConfiguration") => WriteList(bus) = <<>>

\* C2: with WHO_AM_I read as 0xC7, a supported range and no failing write,
\* construction issues exactly the writes 0x2A=0, 0x0E=range code, 0x2B=2,
\* 0x5B=0, 0x2A=5, in this order.
C2_WriteSequence ==
    ( /\ phase # "new"
      /\ bus[1].ok
      /\ bus[1].val = <<199>>
      /\ gs \in SupportedGs
      /\ \A i \in 1..Len(bus) : IsWrite(bus[i]) => bus[i].ok )
    => WriteList(bus) =
         << <<42, 0>>,
            <<14, IF gs = <<4>> THEN 1 ELSE IF gs = <<8>> THEN 2 ELSE 0>>,
            <<43, 2>>,
            <<91, 0>>,
            <<42, 5>> >>

C2_Witness ==
    /\ phase = "ready"
    /\ gs = <<8>>
    /\ Len(WriteList(bus)) = 5
    /\ WriteList(bus)[2] = <<14, 2>>

\* C3: the first bus operation of construction is the read of WHO_AM_I
\* (0x0D); if it returns a byte other than 0xC7, construction fails with the
\* identity error and issues nothing else; if it returns 0xC7, construction
\* goes on to the standby write.
C3_IdentityCheck ==
    phase # "new" =>
      /\ bus[1].op = "read8"
      /\ bus[1].reg = 13
      /\ bus[1].ok => bus[1].val = <<whoami>>
      /\ (bus[1].ok /\ bus[1].val # <<199>>) =>
            /\ phase = "failed"
            /\ err = "IdentityMismatch"
            /\ Len(bus) = 1
      /\ (bus[1].ok /\ bus[1].val = <<199>>) =>
            /\ err # "IdentityMismatch"
            /\ Len(bus) >= 2
            /\ bus[2].op = "write8"
            /\ bus[2].reg = 42
            /\ bus[2].val = <<0>>

C3_Witness ==
    /\ whoami = 198
    /\ phase = "failed"
    /\ err = "IdentityMismatch"
    /\ bus[1].val = <<198>>

\* C4: after a successful construction the stored scale and the range code
\* written to XYZ_DATA_CFG are those of the requested range: 2 or None gives
\* (0, 0.000244), 4 gives (1, 0.000488), 8 gives (2, 0.000976).
C4_ScaleMatchesRange ==
    phase = "ready" =>
      LET cfg == WriteList(bus)[2]
      IN  /\ cfg[1] = 14
          /\ \/ gs \in {<<>>, <<2>>} /\ cfg[2] = 0 /\ scale = <<244>>
             \/ gs = <<4>> /\ cfg[2] = 1 /\ scale = <<488>>
             \/ gs = <<8>> /\ cfg[2] = 2 /\ scale = <<976>>

C4_Witness ==
    /\ phase = "ready"
    /\ gs = <<4>>
    /\ scale = <<488>>
    /\ WriteList(bus)[2] = <<14, 1>>

\* C5: a configuration write that fails is the last bus operation of the
\* construction (no retry, no later write), the construction raises the
\* write error and no driver is returned, so no method is ever called on it.
C5_WriteFailureAborts ==
    \A i \in 1..Len(bus) :
      (IsWrite(bus[i]) /\ ~bus[i].ok) =>
        /\ i = Len(bus)
        /\ phase = "failed"
        /\ err = "BusWriteFailed"
        /\ call = "init"
        /\ callOps = <<>>

C5_Witness ==
    /\ phase = "failed"
    /\ err = "BusWriteFailed"
    /\ Len(bus) = 4
    /\ bus[4].reg = 43
    /\ ~bus[4].ok

\* C6: a get() whose burst read hands back a byte sequence of a length other
\* than 12 raises and returns no vector.
C6_WrongLengthFails ==
    (call = "get" /\ callOps[1].ok /\ Len(callOps[1].val) # 12) =>
      /\ err # ""
      /\ result = <<>>

C6_Witness ==
    /\ call = "get"
    /\ callOps[1].ok
    /\ Len(callOps[1].val) = 11
    /\ err = "struct.error"
    /\ result = <<>>

\* The signed value of the 16-bit field i of burst d, read big-endian: the
\* unsigned value less 65536 when the top bit of the first byte is set.
FieldValue(d, i) == d[2 * i - 1] * 256 + d[2 * i] - 65536 * (d[2 * i - 1] \div 128)

\* C7: a get() that returns has read 12 bytes and returns (ax, ay, az),
\* (mx, my, mz); acceleration i is c * scale where c is the integer with
\* 4c <= v_i <= 4c + 3 (so c has the sign of v_i), magnetic component i is
\* v_(i+3) * 0.1; 0xFE70 decodes to the count -100.
C7_Decoding ==
    (call = "get" /\ err = "") =>
      LET d == callOps[1].val
      IN  /\ Len(d) = 12
          /\ Len(result) = 2
          /\ DOMAIN result[1] = 1..3
          /\ DOMAIN result[2] = 1..3
          /\ \A i \in 1..3 :
               LET v == FieldValue(d, i)
                   c == result[1][i] \div scale[1]
               IN  /\ result[1][i] = c * scale[1]
                   /\ 4 * c <= v
                   /\ v <= 4 * c + 3
                   /\ v < 0 => c < 0
                   /\ v >= 0 => c >= 0
                   /\ (d[2 * i - 1] = 254 /\ d[2 * i] = 112) => c = -100
          /\ \A i \in 1..3 : result[2][i] * 10 = FieldValue(d, i + 3) * 1000

C7_Witness ==
    /\ call = "get"
    /\ err = ""
    /\ scale = <<244>>
    /\ SubSeq(callOps[1].val, 1, 8) = <<1, 144, 254, 112, 0, 0, 3, 232>>
    /\ result[1][1] = 24400
    /\ result[1][2] = -24400
    /\ result[1][3] = 0
    /\ result[2][1] = 100000

\* C8: a temperature() call issues exactly one bus operation, a one-byte
\* read of register 0x51, and returns the byte just read as a signed 8-bit
\* integer: b if b <= 127, else b - 256.
C8_Temperature ==
    call = "temperature" =>
      /\ Len(callOps) = 1
      /\ callOps[1].op = "read8"
      /\ callOps[1].reg = 81
      /\ callOps[1].n = 1
      /\ callOps[1].ok =>
           LET b == callOps[1].val[1]
           IN  /\ err = ""
               /\ result = <<IF b <= 127 THEN b ELSE b - 256>>
               /\ result[1] \in -128..127
               /\ (result[1] - b) % 256 = 0
      /\ ~callOps[1].ok => result = <<>>

C8_Witness ==
    /\ call = "temperature"
    /\ callOps[1].val = <<255>>
    /\ result = <<-1>>

\* C9: on a constructed driver the scale is one of the three range
\* constants, and no get() or temperature() call, returning or raising,
\* changes the scale or issues a register write.
C9_ScaleInvariant ==
    /\ [](phase = "ready" => scale \in {<<244>>, <<488>>, <<976>>})
    /\ [][phase = "ready" =>
            /\ scale' = scale
            /\ bus' = bus
            /\ \A i \in 1..Len(callOps') : ~IsWrite(callOps'[i])]_vars

C9_Witness ==
    /\ phase = "ready"
    /\ call = "get"
    /\ err = "struct.error"
    /\ scale = <<976>>

====
